---- MODULE Spec2Model ----
(***************************************************************************)
(* Entity Identity API server (api/server.js): the attester registry with  *)
(* its fixed-depth Merkle tree, attestation issuance, the nullifier ledger *)
(* and the proof verification gateway.                                     *)
(*                                                                         *)
(* Node runs every synchronous route handler to completion, so each such   *)
(* handler is one action.  POST /verify awaits snarkjs.groth16.verify and  *)
(* is therefore two actions, with other handlers free to run in between.   *)
(***************************************************************************)
EXTENDS Integers, Sequences, FiniteSets, TLC

\* ------------------------------------------------------------------------
\* Bounds of the model
\* ------------------------------------------------------------------------

\* config.merkleDepth is 20 in the source; the tree logic is depth-generic.
merkleDepth == 2

\* Attester ids the administrator uses.
MaxAttesters == 1

\* Keypairs (and API keys) the server generates over a run.
MaxKeys == 2

\* Distinct nullifiers presented by clients.
MaxNullifiers == 1

\* 'attest' rows the audit log may hold.
MaxAttests == 1

\* POST /verify requests that may be awaiting their cryptographic check.
MaxRequests == 1

\* Leaves added to a MerkleTree used on its own; one more than the 2^depth
\* positions of the tree.
MaxLeaves == 5

\* Attestations the public trust registry accepts (ids it assigns).
MaxPublicAttestations == 2

\* Readings of the clock, Date.now(): 1..MaxTime.
MaxTime == 3

\* Nonces of a trust state: 1..MaxNonce.
MaxNonce == 2

\* The largest block.timestamp followed.
MaxBlockTime == 2

AttesterIds == 1..MaxAttesters
Nullifiers == 1..MaxNullifiers

\* ------------------------------------------------------------------------
\* Field elements and the hash capability
\* ------------------------------------------------------------------------
\* A field element is written as a sequence of naturals.  The Poseidon hash
\* is assumed collision free: Hash is the bracketed concatenation of its two
\* arguments, which is injective (atoms never use the tokens 1, 2, 3).

Hash(a, b) == <<1>> \o a \o <<2>> \o b \o <<3>>

PubKeyX(k) == <<10 + 2 * k>>
PubKeyY(k) == <<11 + 2 * k>>

\* leaf = hash([public_key_x, public_key_y])
LeafOf(k) == Hash(PubKeyX(k), PubKeyY(k))

\* A root no tree of this depth produces (a fabricated attestersRoot).
BogusRoot == <<9>>

\* ------------------------------------------------------------------------
\* Entity types
\* ------------------------------------------------------------------------

EntityTypes ==
    [t \in {"AI.CA", "AI.PO", "AI.WS", "AI.OS", "AI.GN", "AI.AA",
            "AR.RB", "AR.DR", "AR.VH", "HU.US", "HY.CP", "HY.HS"} |->
        CASE t = "AI.CA" -> 257
          [] t = "AI.PO" -> 258
          [] t = "AI.WS" -> 259
          [] t = "AI.OS" -> 260
          [] t = "AI.GN" -> 261
          [] t = "AI.AA" -> 262
          [] t = "AR.RB" -> 513
          [] t = "AR.DR" -> 514
          [] t = "AR.VH" -> 515
          [] t = "HU.US" -> 769
          [] t = "HY.CP" -> 1025
          [] t = "HY.HS" -> 1026]

\* ------------------------------------------------------------------------
\* MerkleTree
\* ------------------------------------------------------------------------

\* zeros[] left at zeros[0] on every level.
zeros_Flat(i) == <<0>>

RECURSIVE zeros(_)
zeros(i) == IF i = 0 THEN <<0>> ELSE Hash(zeros(i - 1), zeros(i - 1))

RECURSIVE Pow2(_)
Pow2(n) == IF n = 0 THEN 1 ELSE 2 * Pow2(n - 1)

\* NextLayer padding a missing right sibling with the zero of the level
\* above.
NextLayer_HigherZero(currentLayer, level) ==
    IF Len(currentLayer) = 0
    THEN <<zeros(level + 1)>>
    ELSE [j \in 1..((Len(currentLayer) + 1) \div 2) |->
            Hash(currentLayer[2 * j - 1],
                 IF 2 * j <= Len(currentLayer)
                 THEN currentLayer[2 * j]
                 ELSE zeros(level + 1))]

\* One iteration of the loop of _rebuild: the layer above currentLayer.
NextLayer(currentLayer, level) ==
    IF Len(currentLayer) = 0
    THEN <<zeros(level + 1)>>
    ELSE [j \in 1..((Len(currentLayer) + 1) \div 2) |->
            Hash(currentLayer[2 * j - 1],
                 IF 2 * j <= Len(currentLayer)
                 THEN currentLayer[2 * j]
                 ELSE zeros(level))]

RECURSIVE RebuildFrom(_, _)
RebuildFrom(ls, level) ==
    IF level = merkleDepth
    THEN ls
    ELSE RebuildFrom(Append(ls, NextLayer(ls[Len(ls)], level)), level + 1)

\* _rebuild(): layers[0] is a copy of the leaves, layers[depth] the root.
Rebuild(lvs) == RebuildFrom(<<lvs>>, 0)

\* addLeaf(leaf) applied to a tree with leaves lvs: the new leaves; the
\* layers are Rebuild of them and the returned index is Len(lvs).
AddLeaf(lvs, leaf) == Append(lvs, leaf)

\* The layers after a reset (leaves = [], layers = []) followed by one
\* addLeaf per element of lvs.
LayersAfterAdds(lvs) == IF Len(lvs) = 0 THEN <<>> ELSE Rebuild(lvs)

\* getRoot() answering the zero leaf, not zeros[depth], for a tree without
\* layers.
GetRoot_NoDepth(ls) ==
    IF Len(ls) = 0 THEN zeros(0) ELSE ls[Len(ls)][1]

GetRoot(ls) ==
    IF Len(ls) = 0 THEN zeros(merkleDepth) ELSE ls[Len(ls)][1]

\* getProof(index): index is zero-based, layers are one-based sequences.
GetProof(ls, index) ==
    LET cur(level) == index \div Pow2(level)
        isRight(level) == cur(level) % 2 = 1
        sib(level) == IF isRight(level) THEN cur(level) - 1 ELSE cur(level) + 1
    IN  [pathElements |->
            [l \in 1..merkleDepth |->
                IF (l - 1) < Len(ls) /\ sib(l - 1) < Len(ls[l])
                THEN ls[l][sib(l - 1) + 1]
                ELSE zeros(l - 1)],
         pathIndices |->
            [l \in 1..merkleDepth |-> IF isRight(l - 1) THEN 1 ELSE 0]]

\* The hash fold of a leaf along a proof (what the circuit recomputes).
RECURSIVE FoldFrom(_, _, _)
FoldFrom(h, proof, l) ==
    IF l > Len(proof.pathElements)
    THEN h
    ELSE FoldFrom(IF proof.pathIndices[l] = 1
                  THEN Hash(proof.pathElements[l], h)
                  ELSE Hash(h, proof.pathElements[l]),
                  proof, l + 1)

Fold(leaf, proof) == FoldFrom(leaf, proof, 1)

\* ------------------------------------------------------------------------
\* State
\* ------------------------------------------------------------------------

VARIABLES
    attesters,      \* table attesters: id -> row
    nullifiers,     \* table nullifiers: nullifier -> row
    registry_root,  \* table registry_state, row 1, column root
    audit_log,      \* table audit_log, in insertion order
    leaves,         \* attesterTree.leaves
    layers,         \* attesterTree.layers
    keyCount,       \* keypairs drawn from randomBytes so far
    pending,        \* POST /verify requests awaiting groth16.verify
    held,           \* the attestation response an entity last kept
    recorded        \* per nullifier, {recorded: true} responses sent

vars == <<attesters, nullifiers, registry_root, audit_log, leaves, layers,
          keyCount, pending, held, recorded>>

dbVars == <<attesters, nullifiers, registry_root, audit_log>>
treeVars == <<leaves, layers>>

NoAttestation == [attester |-> 0, root |-> BogusRoot]

\* Two MerkleTree instances used on their own (as the SDK and its tests use
\* the class): fields leaves and layers, and roots, the value getRoot()
\* returned after each addLeaf.
VARIABLES
    treeA,
    treeB

sdkVars == <<treeA, treeB>>

\* new MerkleTree(depth, hash)
NewTree == [leaves |-> <<>>, layers |-> <<>>, roots |-> <<>>]

\* The public trust layer (dual-system.js).
VARIABLES
    objects,        \* the PublicAttestation objects callers have created
    attestations,   \* PublicTrustRegistry.attestations: id -> object
    byCommitment,   \* PublicTrustRegistry.byCommitment: commitment -> ids
    proofPackage,   \* the proof package last handed to a verifier
    now             \* Date.now()

dualVars == <<objects, attestations, byCommitment, proofPackage, now>>

\* TrustHash instances and the state objects their callers hold.
VARIABLES
    states,         \* the state objects callers have built, by name:
                    \* <<>> before the object exists, then <<fields>>
    trust           \* the TrustHash instances: state, currentHash, and
                    \* computed, <<field values>> of the last compute;
                    \* with the method called last, the state object of
                    \* the caller's last compute or verify, and that of
                    \* its last compute

trustVars == <<states, trust>>

\* The EntityTypeRegistry contract.
VARIABLES
    usedNullifiers,          \* the nullifiers mapped to true
    verifiedTypes,           \* commitment -> uint16, 0 where never written
    verificationTimestamps,  \* commitment -> uint256, 0 where never written
    attestersRoot,           \* bytes32, 0 until the admin sets it
    admin,                   \* the admin address
    blockTimestamp,          \* block.timestamp of the block being built
    receipt                  \* the last transaction: function, sender,
                             \* arguments and status ("success" or the
                             \* error it reverted with)

chainVars == <<usedNullifiers, verifiedTypes, verificationTimestamps,
               attestersRoot, admin, blockTimestamp, receipt>>

libVars == <<sdkVars, dualVars, trustVars, chainVars>>

\* Accounts that send transactions; the first deploys the contract.
Senders == {"deployer", "other"}

\* Values of publicSignals[0], the nullifier.
ChainNullifiers == {11, 12}

\* Values of publicSignals[1], the commitment.
ChainCommitments == {21, 22}

\* Values of publicSignals[2]: AI.CA, AI.CA above 16 bits, prefix 0 and
\* prefix 5.
ChainTypes == {257, 65793, 1, 1280}

\* Values of publicSignals[3] and of updateAttestersRoot's argument.
ChainRoots == {0, 31}

\* uint[5] publicSignals: nullifier, commitment, type, attestersRoot,
\* contextId.
PublicSignals ==
    {<<n, c, t, r, 0>> : n \in ChainNullifiers, c \in ChainCommitments,
                         t \in ChainTypes, r \in ChainRoots}

\* Before the first transaction.
NoReceipt == [fn |-> "constructor", sender |-> "deployer", args |-> <<>>,
              status |-> "success"]

StateNames == {"state1", "state2"}

TrustHashes == {"th1", "th2"}

\* new TrustHash(poseidonHash): state and currentHash are null.
NewTrustHash ==
    [state |-> "null", currentHash |-> <<>>, computed |-> <<>>,
     lastCall |-> "none", lastArg |-> "null", lastComputeArg |-> "null"]

\* entity.getCommitment() of the coordinator's entity
EntityCommitment == 7

\* Commitments attestations are made for: the entity's and another one.
Commitments == {EntityCommitment, EntityCommitment + 1}

NoPackage == [level |-> 0, origin |-> "none"]

\* ------------------------------------------------------------------------
\* Queries
\* ------------------------------------------------------------------------

\* SELECT ... WHERE id = ? AND revoked_at IS NULL
ActiveIds(att) == {id \in DOMAIN att : ~att[id].revoked}

\* SELECT * FROM attesters WHERE revoked_at IS NULL ORDER BY merkle_index:
\* every order of the active rows that is sorted by merkle_index (rows with
\* equal merkle_index come in an order SQLite does not fix).
OrderedActive(att) ==
    LET S == ActiveIds(att)
        n == Cardinality(S)
    IN  {s \in [1..n -> S] :
            /\ \A i, j \in 1..n : i # j => s[i] # s[j]
            /\ \A i, j \in 1..n :
                  i < j => att[s[i]].merkle_index <= att[s[j]].merkle_index}

LeavesOfRows(att, order) ==
    [i \in 1..Len(order) |-> LeafOf(att[order[i]].public_key)]

\* ------------------------------------------------------------------------
\* Startup
\* ------------------------------------------------------------------------

Init ==
    /\ attesters = <<>>
    /\ nullifiers = <<>>
    /\ leaves = <<>>
    /\ layers = <<>>
    /\ registry_root = zeros(merkleDepth)
    /\ audit_log = <<>>
    /\ keyCount = 0
    /\ pending = {}
    /\ held = NoAttestation
    /\ recorded = [n \in Nullifiers |-> 0]
    /\ treeA = NewTree
    /\ treeB = NewTree
    /\ objects = <<>>
    /\ attestations = <<>>
    /\ byCommitment = [c \in Commitments |-> {}]
    /\ proofPackage = NoPackage
    /\ now = 1
    /\ states = [name \in StateNames |-> <<>>]
    /\ trust = [th \in TrustHashes |-> NewTrustHash]
    /\ usedNullifiers = {}
    /\ verifiedTypes = [c \in ChainCommitments |-> 0]
    /\ verificationTimestamps = [c \in ChainCommitments |-> 0]
    /\ attestersRoot = 0
    /\ admin = "deployer"
    /\ blockTimestamp = 1
    /\ receipt = NoReceipt

\* createServer() on the existing database: the tree is replayed from the
\* active rows, the durable root rewritten; requests in flight are lost.
Restart ==
    /\ \E order \in OrderedActive(attesters) :
          /\ leaves' = LeavesOfRows(attesters, order)
          /\ layers' = LayersAfterAdds(leaves')
    /\ registry_root' = GetRoot(layers')
    /\ pending' = {}
    /\ UNCHANGED <<attesters, nullifiers, audit_log, keyCount, held, recorded>>

\* ------------------------------------------------------------------------
\* Admin routes
\* ------------------------------------------------------------------------

\* JSON values the 'name' field of the request body may carry: absent, a
\* string, or a value better-sqlite3 refuses to bind (object, array, true).
NameValues == {"missing", "string", "object"}

Bindable(name) == name = "string"

AllowedTypeChoices == {{"AI.CA"}}

\* RegisterResponse with the existence check looking at active rows only.
RegisterResponse_ActiveOnly(id, name, allowedTypes) ==
    IF name = "missing"
    THEN [status |-> 400, error |-> "invalid_request"]
    ELSE IF id \in DOMAIN attesters /\ ~attesters[id].revoked
    THEN [status |-> 409, error |-> "already_exists"]
    ELSE IF ~Bindable(name)
    THEN [status |-> 500, error |-> "internal"]
    ELSE [status |-> 200, error |-> "",
          index |-> Len(leaves),
          registryRoot |-> GetRoot(Rebuild(AddLeaf(leaves, LeafOf(keyCount + 1))))]

\* The response of POST /api/v1/admin/attesters.  A statement that throws
\* ends the handler; express answers 500.
RegisterResponse(id, name, allowedTypes) ==
    IF name = "missing"
    THEN [status |-> 400, error |-> "invalid_request"]
    ELSE IF id \in DOMAIN attesters
    THEN [status |-> 409, error |-> "already_exists"]
    ELSE IF ~Bindable(name)
    THEN [status |-> 500, error |-> "internal"]
    ELSE [status |-> 200, error |-> "",
          index |-> Len(leaves),
          registryRoot |-> GetRoot(Rebuild(AddLeaf(leaves, LeafOf(keyCount + 1))))]

\* POST /api/v1/admin/attesters
Register(id, name, allowedTypes) ==
    IF RegisterResponse(id, name, allowedTypes).status \in {400, 409}
    THEN UNCHANGED vars
    ELSE /\ keyCount < MaxKeys
         /\ keyCount' = keyCount + 1
         /\ LET key == keyCount + 1
                merkleIndex == Len(leaves)
            IN  /\ leaves' = AddLeaf(leaves, LeafOf(key))
                /\ layers' = Rebuild(leaves')
                /\ registry_root' = GetRoot(layers')
                /\ IF Bindable(name)
                   THEN /\ attesters' =
                              (id :> [name |-> name,
                                      public_key |-> key,
                                      merkle_index |-> merkleIndex,
                                      allowed_types |-> allowedTypes,
                                      api_key_hash |-> key,
                                      revoked |-> FALSE]) @@ attesters
                        /\ audit_log' = Append(audit_log,
                              [action |-> "attester_created",
                               attester_id |-> id])
                   ELSE \* the INSERT throws after the tree and the root
                        \* were updated
                        UNCHANGED <<attesters, audit_log>>
         /\ UNCHANGED <<nullifiers, pending, held, recorded>>

\* The loop of the revoke handler: row order[i] gets merkle_index i - 1.
Reindexed(att, order) ==
    [id \in DOMAIN att |->
        IF \E i \in 1..Len(order) : order[i] = id
        THEN [att[id] EXCEPT !.merkle_index =
                (CHOOSE i \in 1..Len(order) : order[i] = id) - 1]
        ELSE att[id]]

\* The response of DELETE /api/v1/admin/attesters/:id (registryRoot is the
\* root of the rebuilt tree and is read from the state after the call).
RevokeResponse(id) ==
    IF id \notin ActiveIds(attesters)
    THEN [status |-> 404, error |-> "attester_not_found"]
    ELSE [status |-> 200, error |-> ""]

\* Revoke that marks the row and writes the audit entry but leaves the
\* in-memory tree as it was.
Revoke_KeepsTree(id) ==
    IF RevokeResponse(id).status = 404
    THEN UNCHANGED vars
    ELSE /\ attesters' = [attesters EXCEPT ![id].revoked = TRUE]
         /\ audit_log' = Append(audit_log,
               [action |-> "attester_revoked", attester_id |-> id])
         /\ UNCHANGED <<nullifiers, registry_root, treeVars, keyCount,
                        pending, held, recorded>>

\* DELETE /api/v1/admin/attesters/:id
Revoke(id) ==
    IF RevokeResponse(id).status = 404
    THEN UNCHANGED vars
    ELSE LET marked == [attesters EXCEPT ![id].revoked = TRUE]
         IN  \E order \in OrderedActive(marked) :
                /\ leaves' = LeavesOfRows(marked, order)
                /\ layers' = LayersAfterAdds(leaves')
                /\ attesters' = Reindexed(marked, order)
                /\ registry_root' = GetRoot(layers')
                /\ audit_log' = Append(audit_log,
                      [action |-> "attester_revoked", attester_id |-> id])
                /\ UNCHANGED <<nullifiers, keyCount, pending, held, recorded>>

\* ------------------------------------------------------------------------
\* Registry routes (reads; they change no state)
\* ------------------------------------------------------------------------

\* GET /api/v1/registry
RegistryResponse ==
    [status |-> 200, root |-> registry_root,
     attestersCount |-> Cardinality(ActiveIds(attesters))]

\* GET /api/v1/registry/attesters/:id/proof
GetProofResponse(id) ==
    IF id \notin ActiveIds(attesters)
    THEN [status |-> 404, error |-> "attester_not_found"]
    ELSE LET attester == attesters[id]
             proof == GetProof(layers, attester.merkle_index)
         IN  [status |-> 200, error |-> "",
              index |-> attester.merkle_index,
              leaf |-> LeafOf(attester.public_key),
              pathElements |-> proof.pathElements,
              pathIndices |-> proof.pathIndices]

\* ------------------------------------------------------------------------
\* Attestation
\* ------------------------------------------------------------------------

\* API keys presented in the Authorization header: key k is the one issued
\* with keypair k, 0 is a key the server never issued.
Credentials == 0..MaxKeys

\* Entity type names a request may carry: "XX.XX" and "constructor" are not
\* in the table.
TypeInputs == {"AI.CA", "HU.US", "XX.XX", "constructor"}

\* Property names every object literal inherits from Object.prototype
\* (constructor, toString, valueOf, hasOwnProperty, ...).
ObjectPrototype == {"constructor"}

\* EntityTypes[entityType] is truthy: an entry of the table, or an inherited
\* property (EntityTypes is a plain object literal).
TruthyEntityType(entityType) ==
    entityType \in DOMAIN EntityTypes \/ entityType \in ObjectPrototype

\* entityCommitment strings, as sequences of characters: decimal digits are
\* 0..9, 35 is a letter.
CommitmentInputs == {<<7>>, <<35>>}

\* BigInt(entityCommitment) succeeds
IsBigInt(c) == \A i \in 1..Len(c) : c[i] < 10

\* Request bodies of POST /attest: every type with a well-formed commitment,
\* and the malformed commitment with the type that reaches the BigInt check.
AttestBodies ==
    {b \in TypeInputs \X CommitmentInputs : b[1] = "AI.CA" \/ IsBigInt(b[2])}

AttestRows(log) == Cardinality({i \in 1..Len(log) : log[i].action = "attest"})

\* The length of the commitment prefix the attest handler writes to the
\* audit log.
AuditPrefixLength == 20

\* s.slice(0, n)
Slice(s, n) == SubSeq(s, 1, IF Len(s) < n THEN Len(s) ELSE n)

\* The characters '...'
Ellipsis == <<46, 46, 46>>

\* The commitment field of the details of an attest audit row:
\* entityCommitment.slice(0, 20) + '...'
AuditCommitment(entityCommitment) ==
    Slice(entityCommitment, AuditPrefixLength) \o Ellipsis

\* attesterAuth without the revoked_at filter.
AttesterAuth_AnyRow(att, apiKey) ==
    {id \in DOMAIN att : att[id].api_key_hash = apiKey}

\* attesterAuth: SELECT ... WHERE api_key_hash = ? AND revoked_at IS NULL
AttesterAuth(att, apiKey) ==
    {id \in ActiveIds(att) : att[id].api_key_hash = apiKey}

\* The response of POST /api/v1/attest
AttestResponse(apiKey, entityType, entityCommitment) ==
    IF AttesterAuth(attesters, apiKey) = {}
    THEN [status |-> 401, error |-> "unauthorized"]
    ELSE LET id == CHOOSE a \in AttesterAuth(attesters, apiKey) : TRUE
             attester == attesters[id]
             merkleProof == GetProof(layers, attester.merkle_index)
         IN  IF ~TruthyEntityType(entityType)
             THEN [status |-> 400, error |-> "invalid_type"]
             ELSE IF entityType \notin attester.allowed_types
             THEN [status |-> 403, error |-> "forbidden"]
             ELSE IF ~IsBigInt(entityCommitment)
             THEN [status |-> 400, error |-> "invalid_commitment"]
             ELSE IF entityType \notin DOMAIN EntityTypes
             \* EntityTypes[entityType].code is undefined, BigInt throws
             THEN [status |-> 500, error |-> "internal"]
             ELSE [status |-> 200, error |-> "",
                   attesterId |-> id,
                   entityType |-> entityType,
                   typeCode |-> EntityTypes[entityType],
                   attesterIndex |-> attester.merkle_index,
                   leaf |-> LeafOf(attester.public_key),
                   pathElements |-> merkleProof.pathElements,
                   pathIndices |-> merkleProof.pathIndices,
                   registryRoot |-> GetRoot(layers)]

\* POST /api/v1/attest
Attest(apiKey, entityType, entityCommitment) ==
    LET res == AttestResponse(apiKey, entityType, entityCommitment)
    IN  IF res.status # 200
        THEN UNCHANGED vars
        ELSE /\ AttestRows(audit_log) < MaxAttests
             /\ audit_log' = Append(audit_log,
                   [action |-> "attest", attester_id |-> res.attesterId,
                    details |-> [entityType |-> entityType,
                                 commitment |->
                                     AuditCommitment(entityCommitment)]])
             \* the entity keeps the attester and the root it was given
             /\ held' = [attester |-> res.attesterId,
                         root |-> res.registryRoot]
             /\ UNCHANGED <<attesters, nullifiers, registry_root, treeVars,
                            keyCount, pending, recorded>>

\* ------------------------------------------------------------------------
\* Verification
\* ------------------------------------------------------------------------

\* The server found setup/verification_key.json at startup.
verificationKey == TRUE

\* claimedType signals: the code of AI.CA and a code outside the table.
TypeCodeInputs == {257, 999}

\* Roots a client can embed: the root of the attestation it holds, the root
\* GET /registry reports now, or a fabricated one.
RootInputs == {held.root, RegistryResponse.root, BogusRoot}

\* Outcomes of snarkjs.groth16.verify, an external capability.
CryptoOutcomes == {"valid", "invalid", "throws"}

\* The response of POST /api/v1/verify sent before groth16.verify is called
\* ("" when the handler goes on to the cryptographic check).
VerifyEarlyResponse(wellFormed) ==
    IF ~verificationKey
    THEN [status |-> 500, error |-> "internal_error", stage |-> "Received"]
    ELSE IF ~wellFormed
    THEN [status |-> 400, error |-> "invalid_request", stage |-> "Received"]
    ELSE [status |-> 0, error |-> "", stage |-> "Received"]

\* POST /api/v1/verify up to the await of groth16.verify.  A request in
\* flight is kept with the root its proof embeds; the signals the handler
\* only looks up or echoes once it resumes (nullifier, claimedType) and the
\* outcome of groth16.verify decide the response alone (VerifyResponse).
VerifyReceive(wellFormed, proofAttestersRoot) ==
    IF VerifyEarlyResponse(wellFormed).status # 0
    THEN UNCHANGED vars
    ELSE LET req == [attestersRoot |-> proofAttestersRoot,
                     \* whose membership path the proof was built from
                     attester |-> IF proofAttestersRoot = held.root
                                  THEN held.attester ELSE 0]
         IN  /\ Cardinality(pending) < MaxRequests
             /\ req \notin pending
             /\ pending' = pending \cup {req}
             /\ UNCHANGED <<dbVars, treeVars, keyCount, held, recorded>>

\* Object.entries(EntityTypes).find(([k, v]) => v.code === typeCode)
TypeEntry(typeCode) ==
    IF \E t \in DOMAIN EntityTypes : EntityTypes[t] = typeCode
    THEN CHOOSE t \in DOMAIN EntityTypes : EntityTypes[t] = typeCode
    ELSE "null"

\* VerifyResponse variants: without the root check, with the root check
\* ahead of the cryptographic result, and with a used nullifier rejected.
VerifyResponse_NoRootCheck(req, nullifier, claimedType, outcome) ==
    IF outcome # "valid"
    THEN [status |-> 400, error |-> "proof_invalid", stage |-> "CryptoChecked"]
    ELSE [status |-> 200, error |-> "", stage |-> "Accepted",
          valid |-> TRUE,
          entityType |-> TypeEntry(claimedType),
          nullifier |-> nullifier,
          registryRootValid |-> TRUE,
          nullifierStatus |->
             IF nullifier \in DOMAIN nullifiers THEN "used" ELSE "new"]

VerifyResponse_RootFirst(req, nullifier, claimedType, outcome) ==
    IF req.attestersRoot # GetRoot(layers)
    THEN [status |-> 400, error |-> "root_mismatch", stage |-> "RootChecked"]
    ELSE IF outcome # "valid"
    THEN [status |-> 400, error |-> "proof_invalid", stage |-> "CryptoChecked"]
    ELSE [status |-> 200, error |-> "", stage |-> "Accepted",
          valid |-> TRUE,
          entityType |-> TypeEntry(claimedType),
          nullifier |-> nullifier,
          registryRootValid |-> TRUE,
          nullifierStatus |->
             IF nullifier \in DOMAIN nullifiers THEN "used" ELSE "new"]

VerifyResponse_RejectsUsed(req, nullifier, claimedType, outcome) ==
    IF outcome # "valid"
    THEN [status |-> 400, error |-> "proof_invalid", stage |-> "CryptoChecked"]
    ELSE IF req.attestersRoot # GetRoot(layers)
    THEN [status |-> 400, error |-> "root_mismatch", stage |-> "RootChecked"]
    ELSE IF nullifier \in DOMAIN nullifiers
    THEN [status |-> 409, error |-> "nullifier_used",
          stage |-> "NullifierChecked"]
    ELSE [status |-> 200, error |-> "", stage |-> "Accepted",
          valid |-> TRUE,
          entityType |-> TypeEntry(claimedType),
          nullifier |-> nullifier,
          registryRootValid |-> TRUE,
          nullifierStatus |-> "new"]

\* VerifyResponse refusing a claimedType that is no code of the table.
VerifyResponse_KnownTypesOnly(req, nullifier, claimedType, outcome) ==
    IF outcome # "valid"
    THEN [status |-> 400, error |-> "proof_invalid", stage |-> "CryptoChecked"]
    ELSE IF req.attestersRoot # GetRoot(layers)
    THEN [status |-> 400, error |-> "root_mismatch", stage |-> "RootChecked"]
    ELSE IF TypeEntry(claimedType) = "null"
    THEN [status |-> 400, error |-> "invalid_type", stage |-> "RootChecked"]
    ELSE [status |-> 200, error |-> "", stage |-> "Accepted",
          valid |-> TRUE,
          entityType |-> TypeEntry(claimedType),
          nullifier |-> nullifier,
          registryRootValid |-> TRUE,
          nullifierStatus |->
             IF nullifier \in DOMAIN nullifiers THEN "used" ELSE "new"]

\* VerifyResponse also accepting a root that was current earlier (the
\* root of the empty registry).
VerifyResponse_HistoricalRoots(req, nullifier, claimedType, outcome) ==
    IF outcome # "valid"
    THEN [status |-> 400, error |-> "proof_invalid", stage |-> "CryptoChecked"]
    ELSE IF req.attestersRoot \notin {GetRoot(layers), zeros(merkleDepth)}
    THEN [status |-> 400, error |-> "root_mismatch", stage |-> "RootChecked"]
    ELSE [status |-> 200, error |-> "", stage |-> "Accepted",
          valid |-> TRUE,
          entityType |-> TypeEntry(claimedType),
          nullifier |-> nullifier,
          registryRootValid |-> TRUE,
          nullifierStatus |->
             IF nullifier \in DOMAIN nullifiers THEN "used" ELSE "new"]

\* The response of POST /api/v1/verify for request req, carrying nullifier
\* and claimedType, when groth16.verify settles with outcome in the current
\* state.  stage is the last stage the request reached.
VerifyResponse(req, nullifier, claimedType, outcome) ==
    IF outcome # "valid"
    THEN [status |-> 400, error |-> "proof_invalid", stage |-> "CryptoChecked"]
    ELSE LET currentRoot == GetRoot(layers)
         IN  IF req.attestersRoot # currentRoot
             THEN [status |-> 400, error |-> "root_mismatch",
                   stage |-> "RootChecked"]
             ELSE LET existingNullifier == nullifier \in DOMAIN nullifiers
                  IN  [status |-> 200, error |-> "", stage |-> "Accepted",
                       valid |-> TRUE,
                       entityType |-> TypeEntry(claimedType),
                       nullifier |-> nullifier,
                       registryRootValid |-> TRUE,
                       nullifierStatus |->
                          IF existingNullifier THEN "used" ELSE "new"]

\* VerifyChecked that also consumes the nullifier of an accepted proof.
VerifyChecked_Consumes(req) ==
    /\ req \in pending
    /\ pending' = pending \ {req}
    /\ \E nullifier \in Nullifiers :
          IF VerifyResponse(req, nullifier, 257, "valid").status = 200
             /\ nullifier \notin DOMAIN nullifiers
          THEN nullifiers' = (nullifier :> [context_id |-> "", domain |-> ""])
                                @@ nullifiers
          ELSE UNCHANGED nullifiers
    /\ UNCHANGED <<attesters, registry_root, audit_log, treeVars, keyCount,
                   held, recorded>>

\* POST /api/v1/verify from the moment groth16.verify settles: the response
\* (VerifyResponse, for the signals of the request and the outcome) is sent
\* and the request is over; no statement of this part writes anything.
VerifyChecked(req) ==
    /\ req \in pending
    /\ pending' = pending \ {req}
    /\ UNCHANGED <<dbVars, treeVars, keyCount, held, recorded>>

\* contextId values of a record request; "" stands for an absent field.
ContextInputs == {"", "ctx"}

\* RecordResponse without the lookup of the nullifier.
RecordResponse_NoLookup(nullifier, contextId, domain) ==
    IF nullifier = 0
    THEN [status |-> 400, error |-> "invalid_request"]
    ELSE [status |-> 200, error |-> "", recorded |-> TRUE]

\* RecordResponse refusing a nullifier while no verification is under way.
RecordResponse_BoundToVerify(nullifier, contextId, domain) ==
    IF nullifier = 0
    THEN [status |-> 400, error |-> "invalid_request"]
    ELSE IF pending = {}
    THEN [status |-> 400, error |-> "not_verified"]
    ELSE IF nullifier \in DOMAIN nullifiers
    THEN [status |-> 409, error |-> "nullifier_used"]
    ELSE [status |-> 200, error |-> "", recorded |-> TRUE]

\* The response of POST /api/v1/verify/record; nullifier 0 stands for an
\* absent field.
RecordResponse(nullifier, contextId, domain) ==
    IF nullifier = 0
    THEN [status |-> 400, error |-> "invalid_request"]
    ELSE IF nullifier \in DOMAIN nullifiers
    THEN [status |-> 409, error |-> "nullifier_used"]
    ELSE [status |-> 200, error |-> "", recorded |-> TRUE]

\* Record with INSERT OR REPLACE and no lookup before it.
Record_Replaces(nullifier, contextId, domain) ==
    IF nullifier = 0
    THEN UNCHANGED vars
    ELSE /\ nullifiers' = (nullifier :> [context_id |-> contextId,
                                         domain |-> domain]) @@ nullifiers
         /\ recorded' = [recorded EXCEPT ![nullifier] = 1]
         /\ UNCHANGED <<attesters, registry_root, audit_log, treeVars,
                        keyCount, pending, held>>

\* POST /api/v1/verify/record
Record(nullifier, contextId, domain) ==
    IF RecordResponse(nullifier, contextId, domain).status # 200
    THEN UNCHANGED vars
    ELSE /\ nullifiers' = (nullifier :> [context_id |-> contextId,
                                         domain |-> domain]) @@ nullifiers
         /\ recorded' = [recorded EXCEPT ![nullifier] = @ + 1]
         /\ UNCHANGED <<attesters, registry_root, audit_log, treeVars,
                        keyCount, pending, held>>

Next ==
    \/ Restart /\ UNCHANGED libVars
    \/ \E id \in AttesterIds, name \in NameValues, ts \in AllowedTypeChoices :
          Register(id, name, ts) /\ UNCHANGED libVars
    \/ \E id \in AttesterIds : Revoke(id) /\ UNCHANGED libVars
    \/ \E k \in Credentials, b \in AttestBodies :
          Attest(k, b[1], b[2]) /\ UNCHANGED libVars
    \/ \E w \in BOOLEAN, r \in RootInputs :
          VerifyReceive(w, r) /\ UNCHANGED libVars
    \/ \E req \in pending : VerifyChecked(req) /\ UNCHANGED libVars
    \/ \E n \in 0..MaxNullifiers, c \in ContextInputs :
          Record(n, c, "") /\ UNCHANGED libVars

allVars == <<vars, libVars>>

Spec == Init /\ [][Next]_allVars

\* ------------------------------------------------------------------------
\* MerkleTree on its own
\* ------------------------------------------------------------------------

\* Leaves a caller adds: BigInt(0) and a non-zero field element.
LeafValues == {<<0>>, <<4>>}

\* tree.addLeaf(leaf) followed by tree.getRoot()
TreeAddLeaf(tree, leaf) ==
    LET lvs == AddLeaf(tree.leaves, leaf)
        ls == Rebuild(lvs)
    IN  [leaves |-> lvs, layers |-> ls, roots |-> Append(tree.roots, GetRoot(ls))]

\* The first tree is given any leaf.
AddLeafA(leaf) ==
    /\ Len(treeA.leaves) < MaxLeaves
    /\ treeA' = TreeAddLeaf(treeA, leaf)
    /\ UNCHANGED <<vars, treeB, dualVars, trustVars, chainVars>>

\* The second tree is given, one by one, the leaves the first was given.
AddLeafB ==
    /\ Len(treeB.leaves) < Len(treeA.leaves)
    /\ treeB' = TreeAddLeaf(treeB, treeA.leaves[Len(treeB.leaves) + 1])
    /\ UNCHANGED <<vars, treeA, dualVars, trustVars, chainVars>>

TreeNext ==
    \/ \E leaf \in LeafValues : AddLeafA(leaf)
    \/ AddLeafB

TreeSpec == Init /\ [][TreeNext]_allVars

\* ------------------------------------------------------------------------
\* Public trust registry, proof coordinator and verification policy
\* ------------------------------------------------------------------------

InteractionLevel ==
    [ANONYMOUS |-> 0, TYPE_ONLY |-> 1, TYPE_WITH_STANDING |-> 2,
     FULL_ACCOUNTABILITY |-> 3]

Levels == {InteractionLevel[n] : n \in DOMAIN InteractionLevel}

\* new PublicAttestation({entityCommitment}): attestationId and timestamp
\* are undefined (0) until the registry sets them.
NewPublicAttestation(commitment) ==
    [entityCommitment |-> commitment, attestationId |-> 0, timestamp |-> 0]

\* AddAttestation storing a new set of ids for the commitment on each call.
AddAttestation_NewSet(o, commitment) ==
    /\ Len(attestations) < MaxPublicAttestations
    /\ o \in 1..(Len(objects) + 1)
    /\ o <= Len(objects) => commitment = objects[o].entityCommitment
    /\ LET id == Len(attestations) + 1
           attestation == IF o <= Len(objects)
                          THEN objects[o]
                          ELSE NewPublicAttestation(commitment)
           stored == [attestation EXCEPT
                        !.attestationId = id,
                        !.timestamp = IF @ # 0 THEN @ ELSE now]
       IN  /\ objects' = IF o <= Len(objects)
                         THEN [objects EXCEPT ![o] = stored]
                         ELSE Append(objects, stored)
           /\ attestations' = Append(attestations, o)
           /\ byCommitment' =
                 [byCommitment EXCEPT ![attestation.entityCommitment] =
                     {id}]
    /\ UNCHANGED <<vars, sdkVars, trustVars, chainVars, proofPackage, now>>

\* registry.addAttestation(attestation), attestation being object o: an
\* object created for the call (o = Len(objects) + 1, for commitment) or
\* one a caller already holds.  The registry stores the object itself and
\* writes the id into it.
AddAttestation(o, commitment) ==
    /\ Len(attestations) < MaxPublicAttestations
    /\ o \in 1..(Len(objects) + 1)
    /\ o <= Len(objects) => commitment = objects[o].entityCommitment
    /\ LET id == Len(attestations) + 1
           attestation == IF o <= Len(objects)
                          THEN objects[o]
                          ELSE NewPublicAttestation(commitment)
           stored == [attestation EXCEPT
                        !.attestationId = id,
                        !.timestamp = IF @ # 0 THEN @ ELSE now]
       IN  /\ objects' = IF o <= Len(objects)
                         THEN [objects EXCEPT ![o] = stored]
                         ELSE Append(objects, stored)
           /\ attestations' = Append(attestations, o)
           /\ byCommitment' =
                 [byCommitment EXCEPT ![attestation.entityCommitment] =
                     @ \cup {id}]
    /\ UNCHANGED <<vars, sdkVars, trustVars, chainVars, proofPackage, now>>

\* Time passes between two calls.
Tick ==
    /\ now < MaxTime
    /\ now' = now + 1
    /\ UNCHANGED <<vars, sdkVars, trustVars, chainVars, objects, attestations, byCommitment,
                   proofPackage>>

\* getAttestationCount(commitment)
GetAttestationCount(commitment) ==
    IF commitment \in DOMAIN byCommitment
    THEN Cardinality(byCommitment[commitment])
    ELSE 0

RECURSIVE SortedIds(_)
SortedIds(ids) ==
    IF ids = {}
    THEN <<>>
    ELSE LET least == CHOOSE i \in ids : \A j \in ids : i <= j
         IN  <<least>> \o SortedIds(ids \ {least})

\* getAttestationsFor(commitment): the stored objects, in the order their
\* ids were added to the set.
GetAttestationsFor(commitment) ==
    LET ids == IF commitment \in DOMAIN byCommitment
               THEN SortedIds(byCommitment[commitment])
               ELSE <<>>
    IN  [k \in 1..Len(ids) |-> objects[attestations[ids[k]]]]

\* A proof package: level; revealed (present or not) with its type and
\* commitment; publicStanding (present or not) with its attestationCount;
\* the attestation ids of the disclosed history; and where it came from.
Package(level, revealed, type, commitment, standing, count, history, origin) ==
    [level |-> level,
     revealed |-> revealed,
     type |-> type,
     commitment |-> commitment,
     publicStanding |-> standing,
     attestationCount |-> count,
     publicAttestations |-> history,
     origin |-> origin]

\* DualProofCoordinator.generateProof(level, params): the package, or
\* "throws" (level 2 with fewer public attestations than
\* params.minAttestations).
GeneratedPackage(level, claimedType, minAttestations) ==
    LET publicAttestations == GetAttestationsFor(EntityCommitment)
        count == Len(publicAttestations)
        details == [k \in 1..count |-> publicAttestations[k].attestationId]
    IN  CASE level = InteractionLevel.ANONYMOUS ->
               Package(level, FALSE, "undefined", 0, FALSE, 0, <<>>,
                       "coordinator")
          [] level = InteractionLevel.TYPE_ONLY ->
               Package(level, TRUE, claimedType, EntityCommitment, FALSE, 0,
                       <<>>, "coordinator")
          [] level = InteractionLevel.TYPE_WITH_STANDING ->
               IF count < minAttestations
               THEN [level |-> level, origin |-> "throws"]
               ELSE Package(level, TRUE, claimedType, EntityCommitment, TRUE,
                            count, <<>>, "coordinator")
          [] level = InteractionLevel.FULL_ACCOUNTABILITY ->
               Package(level, TRUE, claimedType, EntityCommitment, FALSE, 0,
                       details, "coordinator")

\* Types an entity claims in a package.
ClaimedTypes == {"AI.CA", "HU.US"}

\* coordinator.generateProof(level, params), the package then being handed
\* to a verifier.
GenerateProof(level, claimedType, minAttestations) ==
    LET package == GeneratedPackage(level, claimedType, minAttestations)
    IN  IF package.origin = "throws"
        THEN UNCHANGED allVars
        ELSE /\ proofPackage' = package
             /\ UNCHANGED <<vars, sdkVars, trustVars, chainVars, objects, attestations, byCommitment, now>>

\* Packages a prover can write by hand: any level, revealed present or
\* not, publicStanding present with any count or not.
HandBuiltPackages ==
    {Package(level, TRUE, type, commitment, standing, count, <<>>, "prover") :
        level \in Levels, type \in ClaimedTypes, commitment \in Commitments,
        standing \in BOOLEAN, count \in 0..MaxPublicAttestations}
    \cup
    {Package(level, FALSE, "undefined", 0, standing, count, <<>>, "prover") :
        level \in Levels, standing \in BOOLEAN,
        count \in 0..MaxPublicAttestations}

\* A prover hands a package of its own making to a verifier.
PresentPackage(package) ==
    /\ package.publicStanding \/ package.attestationCount = 0
    /\ proofPackage' = package
    /\ UNCHANGED <<vars, sdkVars, trustVars, chainVars, objects, attestations, byCommitment, now>>

\* new VerificationPolicy(config): allowedTypes is null (restricted FALSE)
\* or a list; maxAttestationAge 0 is a config without the field (the
\* constructor then stores Infinity).
Policies ==
    [minLevel : Levels,
     restricted : BOOLEAN,
     allowedTypes : {{}, {"AI.CA"}},
     minPublicAttestations : 0..MaxPublicAttestations,
     maxAttestationAge : 0..MaxTime]

\* proofPackage.publicStanding?.attestationCount || 0
StatedCount(package) ==
    IF package.publicStanding THEN package.attestationCount ELSE 0

\* PolicyErrors without the level check.
PolicyErrors_NoLevelCheck(policy, package) ==
    (IF policy.restricted
        /\ ~(package.revealed /\ package.type \in policy.allowedTypes)
     THEN <<"Type not allowed">> ELSE <<>>)
    \o
    (IF package.level >= InteractionLevel.TYPE_WITH_STANDING
        /\ StatedCount(package) < policy.minPublicAttestations
     THEN <<"Insufficient attestations">> ELSE <<>>)

\* PolicyErrors without the type check.
PolicyErrors_NoTypeCheck(policy, package) ==
    (IF package.level < policy.minLevel
     THEN <<"Insufficient proof level">> ELSE <<>>)
    \o
    (IF package.level >= InteractionLevel.TYPE_WITH_STANDING
        /\ StatedCount(package) < policy.minPublicAttestations
     THEN <<"Insufficient attestations">> ELSE <<>>)

\* PolicyErrors with the count check applied when the policy's minLevel,
\* not the package's level, is TypeWithStanding or above.
PolicyErrors_CountByMinLevel(policy, package) ==
    (IF package.level < policy.minLevel
     THEN <<"Insufficient proof level">> ELSE <<>>)
    \o
    (IF policy.restricted
        /\ ~(package.revealed /\ package.type \in policy.allowedTypes)
     THEN <<"Type not allowed">> ELSE <<>>)
    \o
    (IF policy.minLevel >= InteractionLevel.TYPE_WITH_STANDING
        /\ StatedCount(package) < policy.minPublicAttestations
     THEN <<"Insufficient attestations">> ELSE <<>>)

\* PolicyErrors with the type check applied from TypeOnly upwards only.
PolicyErrors_TypeFromTypeOnly(policy, package) ==
    (IF package.level < policy.minLevel
     THEN <<"Insufficient proof level">> ELSE <<>>)
    \o
    (IF policy.restricted
        /\ package.level >= InteractionLevel.TYPE_ONLY
        /\ ~(package.revealed /\ package.type \in policy.allowedTypes)
     THEN <<"Type not allowed">> ELSE <<>>)
    \o
    (IF package.level >= InteractionLevel.TYPE_WITH_STANDING
        /\ StatedCount(package) < policy.minPublicAttestations
     THEN <<"Insufficient attestations">> ELSE <<>>)

\* The errors VerificationPolicy.verify(proofPackage) collects, in order.
PolicyErrors(policy, package) ==
    (IF package.level < policy.minLevel
     THEN <<"Insufficient proof level">> ELSE <<>>)
    \o
    (IF policy.restricted
        /\ ~(package.revealed /\ package.type \in policy.allowedTypes)
     THEN <<"Type not allowed">> ELSE <<>>)
    \o
    (IF package.level >= InteractionLevel.TYPE_WITH_STANDING
        /\ StatedCount(package) < policy.minPublicAttestations
     THEN <<"Insufficient attestations">> ELSE <<>>)

\* PolicyVerify answering valid whatever errors were collected.
PolicyVerify_AlwaysValid(policy, package) ==
    [valid |-> TRUE, errors |-> PolicyErrors(policy, package)]

\* VerificationPolicy.verify(proofPackage)
PolicyVerify(policy, package) ==
    LET errors == PolicyErrors(policy, package)
    IN  [valid |-> Len(errors) = 0, errors |-> errors]

DualNext ==
    \/ \E o \in 1..(MaxPublicAttestations + 1), c \in Commitments :
          AddAttestation(o, c)
    \/ \E level \in Levels, t \in ClaimedTypes,
          m \in 0..MaxPublicAttestations : GenerateProof(level, t, m)
    \/ \E package \in HandBuiltPackages : PresentPackage(package)
    \/ Tick

DualSpec == Init /\ [][DualNext]_allVars

\* ------------------------------------------------------------------------
\* TrustHash
\* ------------------------------------------------------------------------

\* A field of a state as the caller writes it: a number or a decimal
\* string, of value v.
Number(v) == <<"number", v>>
DecimalString(v) == <<"string", v>>

\* BigInt(x)
BigIntOf(x) == x[2]

\* The hash function handed to TrustHash, on three and on four inputs: an
\* injective serialization; a BigInt v that is no hash output is <<0, v>>.
Poseidon3(a, b, c) == <<1>> \o a \o <<2>> \o b \o <<2>> \o c \o <<3>>
Poseidon4(a, b, c, d) ==
    <<1>> \o a \o <<2>> \o b \o <<2>> \o c \o <<2>> \o d \o <<3>>

FieldElement(v) == <<0, v>>

\* The states callers build (the test's state object and its variations in
\* attestationCount and nonce, the nonce written as number or string).
TrustStates ==
    [entityCommitment : {DecimalString(EntityCommitment)},
     zkAttestersRoot : {DecimalString(0)},
     publicTrustRoot : {DecimalString(0)},
     attestationCount : {Number(0), Number(1)},
     lastAttestationId : {Number(0)},
     nonce : {Number(v) : v \in 1..MaxNonce} \cup {DecimalString(1)}]

\* The value compute(state) returns.
TrustHashOf(state) ==
    LET intermediate ==
            Poseidon3(FieldElement(BigIntOf(state.entityCommitment)),
                      FieldElement(BigIntOf(state.zkAttestersRoot)),
                      FieldElement(BigIntOf(state.publicTrustRoot)))
    IN  Poseidon4(intermediate,
                  FieldElement(BigIntOf(state.attestationCount)),
                  FieldElement(BigIntOf(state.lastAttestationId)),
                  FieldElement(BigIntOf(state.nonce)))

\* A compute that chains the hash it computed before into the new one.
Computed_Rolling(instance, name, state) ==
    [state |-> name,
     currentHash |-> Poseidon3(instance.currentHash, <<>>, TrustHashOf(state)),
     computed |-> <<state>>]

\* The instance after compute(state), state being the object called name
\* with the field values state.
Computed(instance, name, state) ==
    [state |-> name, currentHash |-> TrustHashOf(state),
     computed |-> <<state>>]

\* The record of a call on an instance, next to the fields it wrote.
Called(fields, method, arg, computeArg) ==
    fields @@ [lastCall |-> method, lastArg |-> arg,
               lastComputeArg |-> computeArg]

\* A caller builds a state object.
BuildState(name, state) ==
    /\ states[name] = <<>>
    /\ states' = [states EXCEPT ![name] = <<state>>]
    /\ UNCHANGED <<vars, sdkVars, dualVars, chainVars, trust>>

\* th.compute(state)
Compute(th, name) ==
    /\ states[name] # <<>>
    /\ trust' = [trust EXCEPT ![th] =
                    Called(Computed(@, name, states[name][1]),
                           "compute", name, name)]
    /\ UNCHANGED <<vars, sdkVars, dualVars, chainVars, states>>

\* th.verify(claimedHash, state): true iff the computed hash is
\* BigInt(claimedHash).
VerifyResult(claimedHash, state) == TrustHashOf(state) = claimedHash

\* A verify that only compares and leaves the instance as it was.
TrustVerify_Pure(th, claimedHash, name) ==
    /\ states[name] # <<>>
    /\ VerifyResult(claimedHash, states[name][1]) \in BOOLEAN
    /\ trust' = [trust EXCEPT ![th] =
                    Called([state |-> @.state,
                            currentHash |-> @.currentHash,
                            computed |-> @.computed],
                           "verify", name, @.lastComputeArg)]
    /\ UNCHANGED <<vars, sdkVars, dualVars, chainVars, states>>

TrustVerify(th, claimedHash, name) ==
    /\ states[name] # <<>>
    /\ VerifyResult(claimedHash, states[name][1]) \in BOOLEAN
    /\ trust' = [trust EXCEPT ![th] =
                    Called(Computed(@, name, states[name][1]),
                           "verify", name, @.lastComputeArg)]
    /\ UNCHANGED <<vars, sdkVars, dualVars, chainVars, states>>

\* th.rotate(newNonce): throws without a state; else writes the nonce into
\* the state object the instance holds and computes.
Rotate(th, newNonce) ==
    IF trust[th].state = "null"
    THEN UNCHANGED allVars
    ELSE LET name == trust[th].state
             rotated == [states[name][1] EXCEPT !.nonce = newNonce]
         IN  /\ states' = [states EXCEPT ![name] = <<rotated>>]
             /\ trust' = [trust EXCEPT ![th] =
                             Called(Computed(@, name, rotated),
                                    "rotate", @.lastArg, @.lastComputeArg)]
             /\ UNCHANGED <<vars, sdkVars, dualVars, chainVars>>

TrustNext ==
    \/ \E name \in StateNames, state \in TrustStates : BuildState(name, state)
    \/ \E th \in TrustHashes, name \in StateNames : Compute(th, name)
    \/ \E th \in TrustHashes, name \in StateNames, state \in TrustStates :
          TrustVerify(th, TrustHashOf(state), name)
    \/ \E th \in TrustHashes, v \in 1..MaxNonce : Rotate(th, Number(v))

TrustSpec == Init /\ [][TrustNext]_allVars

\* ------------------------------------------------------------------------
\* EntityTypeRegistry (Solidity)
\* ------------------------------------------------------------------------

\* uint16(x): the low 16 bits.
Uint16(x) == x % 65536

\* uint8(x): the low 8 bits.
Uint8(x) == x % 256

\* _isValidType: the prefix byte is 1..4.
IsValidType(typeCode) ==
    LET prefix == Uint8(typeCode \div 256)
    IN  prefix >= 1 /\ prefix <= 4

\* The outcome of verifyAndRegister with the root check placed before the
\* nullifier check.
VerifyAndRegisterOutcome_RootFirst(publicSignals, valid) ==
    LET nullifier == publicSignals[1]
        entityType == Uint16(publicSignals[3])
        proofAttestersRoot == publicSignals[4]
    IN  IF proofAttestersRoot # attestersRoot THEN "InvalidProof"
        ELSE IF nullifier \in usedNullifiers THEN "NullifierAlreadyUsed"
        ELSE IF ~valid THEN "InvalidProof"
        ELSE IF ~IsValidType(entityType) THEN "InvalidEntityType"
        ELSE "success"

\* The outcome of verifyAndRegister(proof, publicSignals) in the current
\* state, where valid is what verifier.verifyProof returns: the error it
\* reverts with, or "success".
VerifyAndRegisterOutcome(publicSignals, valid) ==
    LET nullifier == publicSignals[1]
        entityType == Uint16(publicSignals[3])
        proofAttestersRoot == publicSignals[4]
    IN  IF nullifier \in usedNullifiers THEN "NullifierAlreadyUsed"
        ELSE IF proofAttestersRoot # attestersRoot THEN "InvalidProof"
        ELSE IF ~valid THEN "InvalidProof"
        ELSE IF ~IsValidType(entityType) THEN "InvalidEntityType"
        ELSE "success"

\* verifyAndRegister(proofA, proofB, proofC, publicSignals); a revert
\* undoes the call and leaves only its receipt.
VerifyAndRegister(sender, publicSignals, valid) ==
    LET nullifier == publicSignals[1]
        commitment == publicSignals[2]
        entityType == Uint16(publicSignals[3])
        outcome == VerifyAndRegisterOutcome(publicSignals, valid)
    IN  /\ receipt' = [fn |-> "verifyAndRegister", sender |-> sender,
                       args |-> <<valid, publicSignals>>, status |-> outcome]
        /\ IF outcome = "success"
           THEN /\ usedNullifiers' = usedNullifiers \cup {nullifier}
                /\ verifiedTypes' =
                      [verifiedTypes EXCEPT ![commitment] = entityType]
                /\ verificationTimestamps' =
                      [verificationTimestamps EXCEPT
                         ![commitment] = blockTimestamp]
           ELSE UNCHANGED <<usedNullifiers, verifiedTypes,
                            verificationTimestamps>>
        /\ UNCHANGED <<vars, sdkVars, dualVars, trustVars,
                       attestersRoot, admin, blockTimestamp>>

\* updateAttestersRoot(newRoot)
UpdateAttestersRoot(sender, newRoot) ==
    /\ IF sender # admin
       THEN /\ receipt' = [fn |-> "updateAttestersRoot", sender |-> sender,
                           args |-> <<newRoot>>, status |-> "Unauthorized"]
            /\ UNCHANGED attestersRoot
       ELSE /\ receipt' = [fn |-> "updateAttestersRoot", sender |-> sender,
                           args |-> <<newRoot>>, status |-> "success"]
            /\ attestersRoot' = newRoot
    /\ UNCHANGED <<vars, sdkVars, dualVars, trustVars, usedNullifiers,
                   verifiedTypes, verificationTimestamps, admin,
                   blockTimestamp>>

\* transferAdmin(newAdmin)
TransferAdmin(sender, newAdmin) ==
    /\ IF sender # admin
       THEN /\ receipt' = [fn |-> "transferAdmin", sender |-> sender,
                           args |-> <<newAdmin>>, status |-> "Unauthorized"]
            /\ UNCHANGED admin
       ELSE /\ receipt' = [fn |-> "transferAdmin", sender |-> sender,
                           args |-> <<newAdmin>>, status |-> "success"]
            /\ admin' = newAdmin
    /\ UNCHANGED <<vars, sdkVars, dualVars, trustVars, usedNullifiers,
                   verifiedTypes, verificationTimestamps, attestersRoot,
                   blockTimestamp>>

\* The next block is built, with a later timestamp.
Mine ==
    /\ blockTimestamp < MaxBlockTime
    /\ blockTimestamp' = blockTimestamp + 1
    /\ UNCHANGED <<vars, sdkVars, dualVars, trustVars, usedNullifiers,
                   verifiedTypes, verificationTimestamps, attestersRoot,
                   admin, receipt>>

ChainNext ==
    \/ \E sender \in Senders, publicSignals \in PublicSignals,
          valid \in BOOLEAN :
          VerifyAndRegister(sender, publicSignals, valid)
    \/ \E sender \in Senders, newRoot \in ChainRoots :
          UpdateAttestersRoot(sender, newRoot)
    \/ \E sender \in Senders, newAdmin \in Senders :
          TransferAdmin(sender, newAdmin)
    \/ Mine

ChainSpec == Init /\ [][ChainNext]_allVars

\* ------------------------------------------------------------------------
\* Properties
\* ------------------------------------------------------------------------

Revoked(id) == id \in DOMAIN attesters /\ attesters[id].revoked

\* C1: for each nullifier at most one record call ever succeeds; the call
\* made while the nullifier is absent succeeds, and once one has succeeded
\* every further call for it is answered nullifier_used (409).
C1_ExactlyOneRecordSucceeds ==
    \A n \in Nullifiers :
        /\ recorded[n] <= 1
        /\ (n \in DOMAIN nullifiers) <=> (recorded[n] = 1)
        /\ \A c \in ContextInputs :
              LET res == RecordResponse(n, c, "")
              IN  IF recorded[n] = 0
                  THEN res.status = 200
                  ELSE res.status = 409 /\ res.error = "nullifier_used"

\* C1 witness: a record has succeeded and a further call is refused.
C1_Witness ==
    \E n \in Nullifiers :
        /\ recorded[n] = 1
        /\ RecordResponse(n, "ctx", "").error = "nullifier_used"

C3_Original ==
    \A req \in pending, n \in Nullifiers, t \in TypeCodeInputs,
       o \in CryptoOutcomes :
        req.attestersRoot # GetRoot(layers)
            => VerifyResponse(req, n, t, o).error = "root_mismatch"

\* C3 amended: every proof whose attestersRoot differs from the current root
\* is rejected; with root_mismatch when it passes the cryptographic check and
\* with proof_invalid when it does not.
C3_StaleRootRejected ==
    \A req \in pending, n \in Nullifiers, t \in TypeCodeInputs,
       o \in CryptoOutcomes :
        req.attestersRoot # GetRoot(layers)
            => LET res == VerifyResponse(req, n, t, o)
               IN  /\ res.status = 400
                   /\ (o = "valid") => res.error = "root_mismatch"
                   /\ (o # "valid") => res.error = "proof_invalid"

\* C3 witness: a request embedding a root that is not current is in flight.
C3_Witness ==
    \E req \in pending :
        /\ req.attestersRoot # GetRoot(layers)
        /\ req.attestersRoot = held.root
        /\ held.attester # 0

\* C4: the stages are taken in the fixed order: a failed cryptographic check
\* ends the request with proof_invalid whatever its root; a passed check with
\* a non-current root (a formerly current one included) ends with
\* root_mismatch; only a request that passed both is answered valid=true,
\* after the nullifier lookup.
C4_StageOrder ==
    \A req \in pending, n \in Nullifiers, t \in TypeCodeInputs,
       o \in CryptoOutcomes :
        LET res == VerifyResponse(req, n, t, o)
            cryptoOk == o = "valid"
            rootOk == req.attestersRoot = GetRoot(layers)
        IN  /\ ~cryptoOk =>
                  res.error = "proof_invalid" /\ res.stage = "CryptoChecked"
            /\ (cryptoOk /\ ~rootOk) =>
                  res.error = "root_mismatch" /\ res.stage = "RootChecked"
            /\ (cryptoOk /\ rootOk) =>
                  /\ res.status = 200
                  /\ res.valid
                  /\ res.stage = "Accepted"
                  /\ res.nullifierStatus \in {"new", "used"}
            /\ (res.status = 200) => (cryptoOk /\ rootOk)

\* C4 witness: requests at both ends are reachable together with a stale one:
\* the entity holds a root that was current and no longer is, and the request
\* in flight embeds it.
C4_Witness ==
    \E req \in pending, n \in Nullifiers, t \in TypeCodeInputs :
        /\ held.attester # 0
        /\ req.attestersRoot = held.root
        /\ req.attestersRoot # GetRoot(layers)
        /\ VerifyResponse(req, n, t, "invalid").stage = "CryptoChecked"
        /\ VerifyResponse(req, n, t, "valid").stage = "RootChecked"

\* C5: a cryptographically valid proof embedding the current root is
\* answered valid=true with nullifierStatus new as long as no record of its
\* nullifier has succeeded and used from then on; the record call succeeds
\* exactly while none has succeeded before.
C5_NullifierStatusFollowsLedger ==
    /\ \A req \in pending, n \in Nullifiers, t \in TypeCodeInputs :
          req.attestersRoot = GetRoot(layers)
            => LET res == VerifyResponse(req, n, t, "valid")
               IN  /\ res.status = 200
                   /\ res.valid
                   /\ res.nullifierStatus =
                         (IF recorded[n] = 0 THEN "new" ELSE "used")
    /\ \A n \in Nullifiers, c \in ContextInputs :
          RecordResponse(n, c, "").status =
              (IF recorded[n] = 0 THEN 200 ELSE 409)

\* C5 witness: after a successful record, a valid proof carrying that
\* nullifier and the current root is being verified.
C5_Witness ==
    \E req \in pending, n \in Nullifiers, t \in TypeCodeInputs :
        /\ req.attestersRoot = GetRoot(layers)
        /\ recorded[n] = 1
        /\ VerifyResponse(req, n, t, "valid").nullifierStatus = "used"

\* C6: no step of the verify handler changes the ledger, the attester rows,
\* the tree, the durable root or the audit log, and the ledger changes only
\* in a step of the record handler.
C6_VerifyChangesNothing ==
    /\ [][(\/ \E w \in BOOLEAN, r \in RootInputs : VerifyReceive(w, r)
           \/ \E req \in pending : VerifyChecked(req))
          => UNCHANGED <<dbVars, treeVars>>]_vars
    /\ [][(nullifiers' # nullifiers)
          => \E n \in Nullifiers, c \in ContextInputs : Record(n, c, "")]_vars

\* C6 witness: a request is in flight while the ledger, the attester table
\* and the audit log are all non-empty.
C6_Witness ==
    /\ pending # {}
    /\ DOMAIN nullifiers # {}
    /\ ActiveIds(attesters) # {}
    /\ audit_log # <<>>

\* C7 as stated: a register that fails part-way (answered 500) leaves the
\* tree, the attester rows, the durable root and the audit log as they were.
C7_FailedRegisterLeavesNoTrace ==
    [][\A id \in AttesterIds, name \in NameValues, ts \in AllowedTypeChoices :
          (RegisterResponse(id, name, ts).status = 500 /\ Register(id, name, ts))
              => UNCHANGED <<dbVars, treeVars>>]_vars

\* C8 as stated: whatever a read is interleaved with, the proof served for an
\* active attester and the root served belong to the same registry state: the
\* attester's leaf folds along the proof to the root, for GET .../proof with
\* GET /registry and for the proof and root of an attest response, and the
\* root verify compares against is the durable root.
C8_NoTornRead ==
    /\ GetRoot(layers) = registry_root
    /\ \A id \in ActiveIds(attesters) :
          LET p == GetProofResponse(id)
              a == AttestResponse(attesters[id].api_key_hash, "AI.CA", <<7>>)
          IN  /\ Fold(p.leaf, p) = RegistryResponse.root
              /\ a.status = 200 => Fold(a.leaf, a) = a.registryRoot

\* C9 as stated: each active attester's merkle_index is the number of active
\* attesters registered before it (keypairs are numbered in registration
\* order).
C9_IndexIsRankAmongActive ==
    \A id \in ActiveIds(attesters) :
        attesters[id].merkle_index =
            Cardinality({j \in ActiveIds(attesters) :
                            attesters[j].public_key < attesters[id].public_key})

\* C10: a revoked attester stays revoked; its proof route answers 404, attest
\* with its credential 401 and a further revoke 404, and a revoke answered
\* 404 (revoked or never registered id) changes nothing.
C10_RevokedIsAbsorbing ==
    /\ [](\A id \in AttesterIds :
            /\ Revoked(id) =>
                  /\ GetProofResponse(id).status = 404
                  /\ RevokeResponse(id).status = 404
                  /\ \A t \in TypeInputs, c \in CommitmentInputs :
                        AttestResponse(attesters[id].api_key_hash, t, c).status
                            = 401
            /\ id \notin DOMAIN attesters => RevokeResponse(id).status = 404)
    /\ [][\A id \in AttesterIds :
            /\ Revoked(id) => Revoked(id)'
            /\ (RevokeResponse(id).status = 404 /\ Revoke(id))
                  => UNCHANGED vars]_vars

\* C10 witness: an attester that had issued an attestation was revoked; its
\* credential is now refused and registering its id again is refused too.
C10_Witness ==
    \E id \in AttesterIds :
        /\ Revoked(id)
        /\ held.attester = id
        /\ AttestResponse(attesters[id].api_key_hash, "AI.CA", <<7>>).status = 401
        /\ RegisterResponse(id, "string", {"AI.CA"}).status = 409

\* Audit rows written by successful registers.
CreatedRows(log) ==
    Cardinality({i \in 1..Len(log) : log[i].action = "attester_created"})

\* C11 as stated, for the root before the first register: when no register
\* has failed (every keypair drawn has its attester_created row), the first
\* successful mutation was a register on the empty registry; from then on
\* the empty-tree root is never current again, and a request embedding it
\* fails the root check.
C11_PreMutationRootStaysStale ==
    (CreatedRows(audit_log) >= 1 /\ keyCount = CreatedRows(audit_log))
        => /\ GetRoot(layers) # zeros(merkleDepth)
           /\ \A n \in Nullifiers, t \in TypeCodeInputs :
                 VerifyResponse([attestersRoot |-> zeros(merkleDepth),
                                 attester |-> 0], n, t, "valid").error
                     = "root_mismatch"

\* C12: a revoke of the only active attester leaves the in-memory root and
\* the durable root equal to zeros[depth], the root of a tree without
\* leaves, and the proof served for that attester before the revoke does not
\* fold to it.
C12_SoleRevokeGivesEmptyRoot ==
    [][\A id \in AttesterIds :
          (ActiveIds(attesters) = {id} /\ Revoke(id))
              => /\ GetRoot(layers') = zeros(merkleDepth)
                 /\ registry_root' = zeros(merkleDepth)
                 /\ leaves' = <<>>
                 /\ LET p == GetProofResponse(id)
                    IN  Fold(p.leaf, p) # GetRoot(layers')]_vars

\* C12 witness: the only attester, which had issued an attestation, was
\* revoked by the last mutation; the root is the empty-tree root and differs
\* from the root that attestation carried.
C12_Witness ==
    \E id \in AttesterIds :
        /\ Revoked(id)
        /\ ActiveIds(attesters) = {}
        /\ audit_log[Len(audit_log)].action = "attester_revoked"
        /\ held.attester = id
        /\ held.root # registry_root
        /\ registry_root = zeros(merkleDepth)

\* The durable root, the in-memory root and the root of a fresh tree built
\* from the active rows in merkle_index order are one value.
RootsAgree(att, ls, root) ==
    /\ root = GetRoot(ls)
    /\ \A order \in OrderedActive(att) :
          GetRoot(LayersAfterAdds(LeavesOfRows(att, order))) = root

\* C13 as stated: after startup and after every completed register or
\* revoke the durable root equals the in-memory root and the root of a
\* replay of the stored active attesters in merkle_index order.
C13_DurableRootIsReplay ==
    /\ [][Restart => RootsAgree(attesters', layers', registry_root')]_vars
    /\ [][\A id \in AttesterIds :
            \/ /\ RevokeResponse(id).status = 200
               /\ Revoke(id)
            \/ \E name \in NameValues, ts \in AllowedTypeChoices :
                  /\ RegisterResponse(id, name, ts).status = 200
                  /\ Register(id, name, ts)
            => RootsAgree(attesters', layers', registry_root')]_vars

\* C16 as stated: attest answers unauthorized when the credential resolves
\* to no active attester, else invalid_type when the type is not in the
\* table, else forbidden when the type is not among the attester's allowed
\* types; it succeeds only when all three hold, and an attest that fails
\* carries no signed attestation and writes nothing.
C16_AttestChecksInOrder ==
    /\ [](\A k \in Credentials, t \in TypeInputs, c \in CommitmentInputs :
            LET res == AttestResponse(k, t, c)
                auth == AttesterAuth(attesters, k)
            IN  /\ auth = {} => res.error = "unauthorized"
                /\ (auth # {} /\ t \notin DOMAIN EntityTypes)
                      => res.error = "invalid_type"
                /\ (auth # {} /\ t \in DOMAIN EntityTypes
                      /\ \A id \in auth : t \notin attesters[id].allowed_types)
                      => res.error = "forbidden"
                /\ res.status = 200
                      => /\ auth # {}
                         /\ t \in DOMAIN EntityTypes
                         /\ \A id \in auth : t \in attesters[id].allowed_types
                /\ res.status # 200 => DOMAIN res = {"status", "error"})
    /\ [][\A k \in Credentials, t \in TypeInputs, c \in CommitmentInputs :
            (AttestResponse(k, t, c).status # 200 /\ Attest(k, t, c))
                => UNCHANGED vars]_vars

\* C17 as stated: every successful attest response carries a proof of
\* exactly depth elements along which the attester's leaf folds to the
\* registryRoot of the same response, and that root is the current root.
C17_AttestProofMatchesRoot ==
    \A k \in Credentials, t \in TypeInputs, c \in CommitmentInputs :
        LET res == AttestResponse(k, t, c)
        IN  res.status = 200
               => /\ Len(res.pathElements) = merkleDepth
                  /\ Len(res.pathIndices) = merkleDepth
                  /\ res.leaf = LeafOf(attesters[res.attesterId].public_key)
                  /\ res.registryRoot = GetRoot(layers)
                  /\ res.registryRoot = registry_root
                  /\ Fold(res.leaf, res) = res.registryRoot

C15_ProofFoldsToRoot ==
    \A i \in 1..Len(treeA.leaves) :
        LET index == i - 1
            proof == GetProof(treeA.layers, index)
        IN  /\ Len(proof.pathElements) = merkleDepth
            /\ Len(proof.pathIndices) = merkleDepth
            /\ \A l \in 1..merkleDepth :
                  proof.pathIndices[l] = (index \div Pow2(l - 1)) % 2
            /\ Fold(treeA.leaves[i], proof) = GetRoot(treeA.layers)


\* ------------------------------------------------------------------------
\* Verification policy against the public trust registry
\* ------------------------------------------------------------------------

\* The level and type requirements of policy are met by package.
LevelAndTypeMet(policy, package) ==
    /\ package.level >= policy.minLevel
    /\ policy.restricted =>
          (package.revealed /\ package.type \in policy.allowedTypes)

\* C18: at TypeWithStanding and above, a policy accepts a package only if
\* the registry's own count for the package's commitment is at least
\* minPublicAttestations, whatever count the package itself states.
C18_AcceptedOnlyWithRegistryCount ==
    \A policy \in Policies :
        (/\ proofPackage.origin # "none"
         /\ proofPackage.level >= InteractionLevel.TYPE_WITH_STANDING
         /\ PolicyVerify(policy, proofPackage).valid)
        => GetAttestationCount(proofPackage.commitment)
              >= policy.minPublicAttestations

\* C19: at TypeWithStanding, the level and type requirements being met, a
\* policy rejects the package when the registry's count for the entity is
\* below minPublicAttestations and accepts it when the count equals
\* minPublicAttestations.
C19_StandingBoundaryInclusive ==
    \A policy \in Policies :
        (/\ proofPackage.origin # "none"
         /\ proofPackage.level = InteractionLevel.TYPE_WITH_STANDING
         /\ LevelAndTypeMet(policy, proofPackage))
        => LET count == GetAttestationCount(proofPackage.commitment)
               result == PolicyVerify(policy, proofPackage)
           IN  /\ count < policy.minPublicAttestations => ~result.valid
               /\ count = policy.minPublicAttestations => result.valid

\* C20: a FullAccountability package generated by the coordinator for an
\* entity whose registry count is at least minPublicAttestations is
\* accepted by every policy whose level and type requirements it meets.
C20_FullAccountabilityAccepted ==
    \A policy \in Policies :
        (/\ proofPackage.origin = "coordinator"
         /\ proofPackage.level = InteractionLevel.FULL_ACCOUNTABILITY
         /\ LevelAndTypeMet(policy, proofPackage)
         /\ GetAttestationCount(EntityCommitment)
               >= policy.minPublicAttestations)
        => PolicyVerify(policy, proofPackage).valid


\* ------------------------------------------------------------------------
\* Taken ids and the nullifier ledger
\* ------------------------------------------------------------------------

\* C25: a well-formed register with an id that has a row, revoked or not,
\* is answered already_exists and changes neither tree, root, attester
\* rows nor audit log; and no step removes an attester row, so the id of a
\* revoked attester stays taken.
C25_TakenIdStaysTaken ==
    /\ [][\A id \in DOMAIN attesters, name \in NameValues \ {"missing"},
            ts \in AllowedTypeChoices :
              Register(id, name, ts)
                => /\ RegisterResponse(id, name, ts).status = 409
                   /\ RegisterResponse(id, name, ts).error = "already_exists"
                   /\ UNCHANGED <<attesters, registry_root, audit_log,
                                  leaves, layers>>]_vars
    /\ [][\A id \in DOMAIN attesters :
              /\ id \in DOMAIN attesters'
              /\ attesters[id].revoked => attesters'[id].revoked]_vars

\* C25 witness: the only id is the id of a revoked attester, a key is left
\* for a new keypair, and a register with that id is answered 409.
C25_Witness ==
    \E id \in AttesterIds :
        /\ Revoked(id)
        /\ keyCount < MaxKeys
        /\ held.attester # id
        /\ RegisterResponse(id, "string", {"AI.CA"}).error = "already_exists"

\* C26: a ledger row, once written, is in the ledger in every later state
\* with the contextId and domain of the record that wrote it, and a record
\* for its nullifier is answered nullifier_used.
C26_LedgerOnlyGrows ==
    /\ [](\A n \in DOMAIN nullifiers, c \in ContextInputs :
              RecordResponse(n, c, "").error = "nullifier_used")
    /\ [][\A n \in DOMAIN nullifiers :
              /\ n \in DOMAIN nullifiers'
              /\ nullifiers'[n] = nullifiers[n]]_vars

\* C26 witness: the ledger holds a row written with contextId "ctx", and a
\* record for the same nullifier with another contextId is refused.
C26_Witness ==
    \E n \in DOMAIN nullifiers :
        /\ nullifiers[n].context_id = "ctx"
        /\ recorded[n] = 1
        /\ RecordResponse(n, "", "").status = 409


\* C27: addLeaf never brings the number of leaves of a tree above
\* 2^depth, and getRoot() changes with every leaf the tree accepts.
C27_LeavesWithinCapacity ==
    /\ Len(treeA.leaves) <= 2 ^ merkleDepth
    /\ Len(treeB.leaves) <= 2 ^ merkleDepth
    /\ \A k \in 2..Len(treeA.roots) :
          treeA.leaves[k] # zeros(0) => treeA.roots[k] # treeA.roots[k - 1]


\* Attestations of commitment whose timestamp lies in [now - age, now].
WithinAge(commitment, age) ==
    {id \in (IF commitment \in DOMAIN byCommitment
             THEN byCommitment[commitment] ELSE {}) :
        LET timestamp == objects[attestations[id]].timestamp
        IN  now - age <= timestamp /\ timestamp <= now}

\* C21: a policy that sets maxAttestationAge accepts a package the
\* coordinator generated at TypeWithStanding or above only if at least
\* minPublicAttestations of the entity's attestations have a timestamp
\* within [now - maxAttestationAge, now].
C21_OldAttestationsDoNotCount ==
    \A policy \in Policies :
        (/\ policy.maxAttestationAge # 0
         /\ proofPackage.origin = "coordinator"
         /\ proofPackage.level >= InteractionLevel.TYPE_WITH_STANDING
         /\ PolicyVerify(policy, proofPackage).valid)
        => Cardinality(WithinAge(EntityCommitment, policy.maxAttestationAge))
              >= policy.minPublicAttestations


\* C22: a package whose level is below the policy's minLevel is rejected,
\* whatever its other fields, and the result reports a reason for it.
C22_LowLevelRejected ==
    \A policy \in Policies :
        (proofPackage.origin # "none" /\ proofPackage.level < policy.minLevel)
        => LET result == PolicyVerify(policy, proofPackage)
           IN  /\ ~result.valid
               /\ Len(result.errors) >= 1
               /\ result.errors[1] = "Insufficient proof level"

\* C22 witness: a TypeWithStanding package stating enough attestations and
\* an allowed type is rejected by a policy that asks for FullAccountability.
C22_Witness ==
    /\ proofPackage.origin # "none"
    /\ proofPackage.level = InteractionLevel.TYPE_WITH_STANDING
    /\ proofPackage.revealed
    /\ proofPackage.type = "AI.CA"
    /\ StatedCount(proofPackage) = MaxPublicAttestations
    /\ ~PolicyVerify([minLevel |-> InteractionLevel.FULL_ACCOUNTABILITY,
                      restricted |-> TRUE,
                      allowedTypes |-> {"AI.CA"},
                      minPublicAttestations |-> 1,
                      maxAttestationAge |-> 0], proofPackage).valid

\* The level check and the check of the count the package states pass.
LevelAndStatedCountMet(policy, package) ==
    /\ package.level >= policy.minLevel
    /\ package.level >= InteractionLevel.TYPE_WITH_STANDING
          => StatedCount(package) >= policy.minPublicAttestations

\* C23: at TypeOnly and above, a policy with an allowedTypes list rejects a
\* package whose claimed type is not in the list and accepts one whose
\* claimed type is in it when the other checks pass; a policy without a
\* list accepts every claimed type when the other checks pass.
C23_AllowedTypes ==
    \A policy \in Policies :
        (proofPackage.origin # "none"
         /\ proofPackage.level >= InteractionLevel.TYPE_ONLY)
        => LET result == PolicyVerify(policy, proofPackage)
               listed == proofPackage.revealed
                         /\ proofPackage.type \in policy.allowedTypes
               others == LevelAndStatedCountMet(policy, proofPackage)
           IN  /\ (policy.restricted /\ ~listed)
                     => (~result.valid
                         /\ \E k \in 1..Len(result.errors) :
                               result.errors[k] = "Type not allowed")
               /\ (policy.restricted /\ listed /\ others) => result.valid
               /\ (~policy.restricted /\ others) => result.valid

\* C23 witness: the coordinator's TypeOnly package claims HU.US; a policy
\* listing only AI.CA rejects it and a policy without a list accepts it.
C23_Witness ==
    /\ proofPackage.origin = "coordinator"
    /\ proofPackage.level = InteractionLevel.TYPE_ONLY
    /\ proofPackage.type = "HU.US"
    /\ ~PolicyVerify([minLevel |-> InteractionLevel.TYPE_ONLY,
                      restricted |-> TRUE,
                      allowedTypes |-> {"AI.CA"},
                      minPublicAttestations |-> 0,
                      maxAttestationAge |-> 0], proofPackage).valid
    /\ PolicyVerify([minLevel |-> InteractionLevel.TYPE_ONLY,
                     restricted |-> FALSE,
                     allowedTypes |-> {},
                     minPublicAttestations |-> 0,
                     maxAttestationAge |-> 0], proofPackage).valid

C28_StoredAttestationImmutable ==
    /\ \A k \in 1..Len(attestations) :
          objects[attestations[k]].attestationId = k
    /\ \A k \in 1..Len(attestations) :
          /\ k \in byCommitment[objects[attestations[k]].entityCommitment]
          /\ objects[attestations[k]].timestamp \in 1..now

\* C29: an addAttestation for commitment c raises the count of c by one
\* and leaves the count of every other commitment as it was; no step
\* lowers a count, and a commitment without attestations has count 0.
C29_CountPerCommitment ==
    /\ [](\A c \in Commitments \cup {0} :
             byCommitment = [d \in Commitments |-> {}]
                => GetAttestationCount(c) = 0)
    /\ [][/\ \A o \in 1..(MaxPublicAttestations + 1), c \in Commitments :
                AddAttestation(o, c)
                  => \A d \in Commitments :
                        Cardinality(byCommitment'[d])
                          = GetAttestationCount(d) + (IF d = c THEN 1 ELSE 0)
          /\ \A d \in Commitments :
                Cardinality(byCommitment'[d]) >= GetAttestationCount(d)
         ]_allVars

\* C29 witness: one attestation object was added twice and the entity's
\* count is 2, the other commitment's 0.
C29_Witness ==
    /\ Len(attestations) = 2
    /\ attestations[1] = attestations[2]
    /\ GetAttestationCount(EntityCommitment) = 2
    /\ GetAttestationCount(EntityCommitment + 1) = 0


\* ------------------------------------------------------------------------
\* TrustHash.compute as a function of the state
\* ------------------------------------------------------------------------

\* The five fields other than nonce have the same values in s and t.
SameButNonce(s, t) ==
    \A f \in {"entityCommitment", "zkAttestersRoot", "publicTrustRoot",
              "attestationCount", "lastAttestationId"} :
        BigIntOf(s[f]) = BigIntOf(t[f])

\* C30: two TrustHash instances whose last compute was given states of
\* equal field values hold equal hashes, whatever each computed before,
\* and states that differ only in the value of nonce give different hashes.
C30_HashIsFunctionOfState ==
    \A a \in TrustHashes, b \in TrustHashes :
        (trust[a].computed # <<>> /\ trust[b].computed # <<>>)
        => LET s == trust[a].computed[1]
               t == trust[b].computed[1]
           IN  /\ (SameButNonce(s, t) /\ BigIntOf(s.nonce) = BigIntOf(t.nonce))
                     => trust[a].currentHash = trust[b].currentHash
               /\ (SameButNonce(s, t) /\ BigIntOf(s.nonce) # BigIntOf(t.nonce))
                     => trust[a].currentHash # trust[b].currentHash
               /\ trust[a].currentHash = TrustHashOf(s)

\* C30 witness: the two instances computed different state objects whose
\* fields have equal values, written differently (the nonce as a number in
\* one and as a string in the other), and hold the same hash.
C30_Witness ==
    /\ trust["th1"].state = "state1"
    /\ trust["th2"].state = "state2"
    /\ trust["th1"].computed # trust["th2"].computed
    /\ SameButNonce(trust["th1"].computed[1], trust["th2"].computed[1])
    /\ BigIntOf(trust["th1"].computed[1].nonce)
          = BigIntOf(trust["th2"].computed[1].nonce)
    /\ trust["th1"].currentHash = trust["th2"].currentHash


\* ------------------------------------------------------------------------
\* The audit row of attest
\* ------------------------------------------------------------------------

\* part occurs in text
Contains(text, part) ==
    \E i \in 0..(Len(text) - Len(part)) :
        SubSeq(text, i + 1, i + Len(part)) = part

\* C31: the audit row a successful attest writes does not contain the
\* entity's full raw commitment, whatever its length.
C31_AuditHidesCommitment ==
    [][\A k \in Credentials, b \in AttestBodies :
          (Attest(k, b[1], b[2]) /\ AttestResponse(k, b[1], b[2]).status = 200)
            => ~Contains(audit_log'[Len(audit_log')].details.commitment,
                         b[2])]_vars


\* ------------------------------------------------------------------------
\* The root as the root of a complete tree
\* ------------------------------------------------------------------------

\* lvs followed by zero leaves up to 2^depth leaves.
Padded(lvs) ==
    [k \in 1..Pow2(merkleDepth) |-> IF k <= Len(lvs) THEN lvs[k] ELSE <<0>>]

\* The root of the complete binary tree over a layer of 2^h nodes.
RECURSIVE CompleteRoot(_)
CompleteRoot(layer) ==
    IF Len(layer) = 1
    THEN layer[1]
    ELSE CompleteRoot([j \in 1..(Len(layer) \div 2) |->
                          Hash(layer[2 * j - 1], layer[2 * j])])

\* C32: after each addLeaf up to 2^depth leaves, getRoot() is the root of
\* the complete binary tree of height depth whose first leaves are the
\* leaves added so far and whose other leaves are 0.
C32_RootOfZeroPaddedTree ==
    /\ zeros(merkleDepth) = CompleteRoot(Padded(<<>>))
    /\ \A k \in 1..Len(treeA.roots) :
          k <= Pow2(merkleDepth)
            => treeA.roots[k] = CompleteRoot(Padded(SubSeq(treeA.leaves, 1, k)))

\* C32 witness: a tree of three non-zero leaves, whose third leaf has no
\* right sibling and whose first root was padded on every level.
C32_Witness ==
    /\ Len(treeA.leaves) = 3
    /\ \A k \in 1..3 : treeA.leaves[k] # <<0>>
    /\ treeA.roots[3] # treeA.roots[2]
    /\ treeA.roots[3] = CompleteRoot(Padded(treeA.leaves))


\* ------------------------------------------------------------------------
\* The tree and the active attesters
\* ------------------------------------------------------------------------

\* The tree holds one leaf per active row, and the leaf at each active
\* row's merkle_index is the hash of that row's public key.
TreeHoldsActive(att, lvs) ==
    /\ Len(lvs) = Cardinality(ActiveIds(att))
    /\ \A id \in ActiveIds(att) :
          /\ att[id].merkle_index < Len(lvs)
          /\ lvs[att[id].merkle_index + 1] = LeafOf(att[id].public_key)

\* C33: after startup and after every completed register or revoke, the
\* in-memory tree holds exactly one leaf per active attester and the leaf
\* at each active attester's merkle_index is the hash of its own key.
C33_OneLeafPerActiveAttester ==
    /\ [][Restart => TreeHoldsActive(attesters', leaves')]_vars
    /\ [][\A id \in AttesterIds :
            \/ /\ RevokeResponse(id).status = 200
               /\ Revoke(id)
            \/ \E name \in NameValues, ts \in AllowedTypeChoices :
                  /\ RegisterResponse(id, name, ts).status = 200
                  /\ Register(id, name, ts)
            => TreeHoldsActive(attesters', leaves')]_vars


\* ------------------------------------------------------------------------
\* Requests in their cryptographic check while the registry changes
\* ------------------------------------------------------------------------

C35_RecordNotBoundToVerify ==
    /\ [](\A n \in Nullifiers \ DOMAIN nullifiers, c \in ContextInputs :
             /\ RecordResponse(n, c, "").status = 200
             /\ ENABLED Record(n, c, ""))
    /\ [][\A n \in Nullifiers \ DOMAIN nullifiers, c \in ContextInputs :
             Record(n, c, "")
               => /\ n \in DOMAIN nullifiers'
                  /\ \A t \in TypeCodeInputs :
                        (VerifyResponse([attestersRoot |-> GetRoot(layers),
                                         attester |-> 0], n, t, "valid")
                            .nullifierStatus)' = "used"]_vars

\* C35 witness: a nullifier is in the ledger of a server that never
\* registered an attester and has no request in flight.
C35_Witness ==
    \E n \in DOMAIN nullifiers :
        /\ keyCount = 0
        /\ attesters = <<>>
        /\ pending = {}
        /\ recorded[n] = 1
        /\ \A t \in TypeCodeInputs :
              VerifyResponse([attestersRoot |-> GetRoot(layers),
                              attester |-> 0], n, t, "valid")
                  .nullifierStatus = "used"


\* ------------------------------------------------------------------------
\* Which checks of the policy apply at which level
\* ------------------------------------------------------------------------

\* reason is one of the errors of result
Reports(result, reason) ==
    \E k \in 1..Len(result.errors) : result.errors[k] = reason

\* C36: for a policy with minLevel at most TypeOnly and
\* minPublicAttestations above 0, a TypeOnly package of an allowed type is
\* accepted without any count, and a TypeWithStanding or FullAccountability
\* package stating a count below the minimum is rejected for it.
C36_StandingCheckFollowsPackageLevel ==
    \A policy \in Policies :
        (/\ proofPackage.origin # "none"
         /\ policy.minLevel <= InteractionLevel.TYPE_ONLY
         /\ policy.minPublicAttestations > 0)
        => LET result == PolicyVerify(policy, proofPackage)
               typeMet == policy.restricted
                             => (proofPackage.revealed
                                 /\ proofPackage.type \in policy.allowedTypes)
           IN  /\ (proofPackage.level = InteractionLevel.TYPE_ONLY /\ typeMet)
                     => result.valid
               /\ (proofPackage.level >= InteractionLevel.TYPE_WITH_STANDING
                   /\ StatedCount(proofPackage) < policy.minPublicAttestations)
                     => (~result.valid
                         /\ Reports(result, "Insufficient attestations"))

\* C36 witness: the coordinator's FullAccountability package of type AI.CA
\* is rejected by a policy (minLevel TypeOnly, one attestation) that
\* accepts the coordinator's TypeOnly package of the same type.
C36_Witness ==
    LET policy == [minLevel |-> InteractionLevel.TYPE_ONLY,
                   restricted |-> TRUE,
                   allowedTypes |-> {"AI.CA"},
                   minPublicAttestations |-> 1,
                   maxAttestationAge |-> 0]
    IN  /\ proofPackage.origin = "coordinator"
        /\ proofPackage.level = InteractionLevel.FULL_ACCOUNTABILITY
        /\ proofPackage.type = "AI.CA"
        /\ GetAttestationCount(EntityCommitment) >= 1
        /\ ~PolicyVerify(policy, proofPackage).valid
        /\ PolicyVerify(policy,
              GeneratedPackage(InteractionLevel.TYPE_ONLY, "AI.CA", 0)).valid

\* C37: a policy with an allowedTypes list rejects the Anonymous package
\* the coordinator generates, which reveals no type, with the reason
\* 'Type not allowed', also when its minLevel is Anonymous.
C37_TypeCheckAtEveryLevel ==
    \A policy \in Policies :
        (/\ proofPackage.origin = "coordinator"
         /\ proofPackage.level = InteractionLevel.ANONYMOUS
         /\ policy.restricted)
        => LET result == PolicyVerify(policy, proofPackage)
           IN  /\ ~proofPackage.revealed
               /\ ~result.valid
               /\ Reports(result, "Type not allowed")
               /\ policy.minLevel = InteractionLevel.ANONYMOUS
                     => result.errors = <<"Type not allowed">>

\* C37 witness: the coordinator's Anonymous package is the package at
\* hand; a policy with minLevel Anonymous and no list accepts it.
C37_Witness ==
    /\ proofPackage.origin = "coordinator"
    /\ proofPackage.level = InteractionLevel.ANONYMOUS
    /\ PolicyVerify([minLevel |-> InteractionLevel.ANONYMOUS,
                     restricted |-> FALSE,
                     allowedTypes |-> {},
                     minPublicAttestations |-> 1,
                     maxAttestationAge |-> 0], proofPackage).valid


\* ------------------------------------------------------------------------
\* verify and the type table
\* ------------------------------------------------------------------------

\* C38: a cryptographically valid proof embedding the current root whose
\* claimedType is no code of the type table is answered valid = true with
\* entityType null, as a proof with a table code is answered valid = true
\* with the name of its type.
C38_UnknownTypeStillValid ==
    \A req \in pending, n \in Nullifiers, t \in TypeCodeInputs :
        req.attestersRoot = GetRoot(layers)
            => LET res == VerifyResponse(req, n, t, "valid")
                   inTable == \E name \in DOMAIN EntityTypes :
                                 EntityTypes[name] = t
               IN  /\ res.status = 200
                   /\ res.valid
                   /\ ~inTable => res.entityType = "null"
                   /\ inTable => /\ res.entityType \in DOMAIN EntityTypes
                                 /\ EntityTypes[res.entityType] = t

\* C38 witness: the proof of an entity attested by the active attester,
\* embedding the current root, is in flight, and with a claimedType outside
\* the table its answer has entityType null.
C38_Witness ==
    \E req \in pending, n \in Nullifiers, t \in TypeCodeInputs :
        /\ req.attestersRoot = GetRoot(layers)
        /\ req.attester # 0
        /\ req.attester \in ActiveIds(attesters)
        /\ \A name \in DOMAIN EntityTypes : EntityTypes[name] # t
        /\ VerifyResponse(req, n, t, "valid").entityType = "null"
        /\ VerifyResponse(req, n, t, "valid").valid


\* ------------------------------------------------------------------------
\* TrustHash.verify and rotate
\* ------------------------------------------------------------------------

\* C39: verify leaves the instance holding the state it was given and that
\* state's hash, whether the claimed hash matched or not; a rotate writes
\* the nonce into the state the instance holds, after a verify the
\* verified one, and computes its hash; an instance that never computed or
\* verified has no state, so its rotate throws and changes nothing.
C39_VerifyOverwritesState ==
    /\ [](\A th \in TrustHashes :
             /\ trust[th].lastCall = "verify"
                   => /\ trust[th].state = trust[th].lastArg
                      /\ trust[th].computed # <<>>
                      /\ trust[th].currentHash
                            = TrustHashOf(trust[th].computed[1])
             /\ trust[th].lastCall = "rotate"
                   => trust[th].state = trust[th].lastArg
             /\ trust[th].lastCall = "none" <=> trust[th] = NewTrustHash)
    /\ [][\A th \in TrustHashes :
             (trust'[th] # trust[th] /\ trust'[th].lastCall = "verify")
               => LET name == trust'[th].lastArg
                  IN  /\ trust'[th].state = name
                      /\ trust'[th].currentHash = TrustHashOf(states[name][1])
                      /\ states' = states]_allVars
    /\ [][\A th \in TrustHashes :
             (trust'[th] # trust[th] /\ trust'[th].lastCall = "rotate")
               => LET name == trust[th].state
                  IN  /\ name # "null"
                      /\ states'[name][1] =
                            [states[name][1] EXCEPT
                               !.nonce = trust'[th].computed[1].nonce]
                      /\ \A other \in StateNames \ {name} :
                            states'[other] = states[other]
                      /\ trust'[th].state = name
                      /\ trust'[th].currentHash = TrustHashOf(states'[name][1])
         ]_allVars

\* C39 witness: an instance computed one state, verified the other with a
\* claimed hash that did not match, and was rotated: it holds the verified
\* state, whose nonce is the rotated one, and the other instance was never
\* used.
C39_Witness ==
    /\ trust["th1"].lastCall = "rotate"
    /\ trust["th1"].lastComputeArg = "state1"
    /\ trust["th1"].lastArg = "state2"
    /\ trust["th1"].state = "state2"
    /\ states["state2"][1].nonce = Number(MaxNonce)
    /\ states["state1"][1].nonce = DecimalString(1)
    /\ states["state1"][1].attestationCount
          # states["state2"][1].attestationCount
    /\ trust["th2"] = NewTrustHash


\* ------------------------------------------------------------------------
\* On-chain nullifiers
\* ------------------------------------------------------------------------

\* C40: verifyAndRegister marks the nullifier used in the call that accepts
\* the proof: a call succeeds only with a nullifier not yet used and leaves
\* it used for ever, so at most one call per nullifier succeeds; with a used
\* nullifier every call reverts with NullifierAlreadyUsed, whatever its
\* root and proof; a call that reverts leaves usedNullifiers, verifiedTypes
\* and verificationTimestamps as they were.
C40_NullifierConsumedOnChain ==
    /\ [](\A publicSignals \in PublicSignals, valid \in BOOLEAN :
             publicSignals[1] \in usedNullifiers
                => VerifyAndRegisterOutcome(publicSignals, valid)
                      = "NullifierAlreadyUsed")
    /\ [][usedNullifiers \subseteq usedNullifiers']_allVars
    /\ [][(receipt' # receipt /\ receipt'.fn = "verifyAndRegister")
             => LET nullifier == receipt'.args[2][1]
                    commitment == receipt'.args[2][2]
                IN  IF receipt'.status = "success"
                    THEN /\ nullifier \notin usedNullifiers
                         /\ usedNullifiers' = usedNullifiers \cup {nullifier}
                         /\ verifiedTypes'[commitment]
                               = Uint16(receipt'.args[2][3])
                         /\ verificationTimestamps'[commitment]
                               = blockTimestamp
                    ELSE UNCHANGED <<usedNullifiers, verifiedTypes,
                                     verificationTimestamps>>]_allVars

\* C40 witness: a nullifier was accepted for one commitment in the first
\* block, and the last call, in a later block, presented it again for the
\* other commitment with a root that is not the contract's and a proof the
\* verifier rejects: it reverted with NullifierAlreadyUsed and the other
\* commitment is still unverified.
C40_Witness ==
    /\ usedNullifiers = {11}
    /\ verifiedTypes[21] = 257
    /\ verificationTimestamps[21] = 1
    /\ blockTimestamp > 1
    /\ receipt.fn = "verifyAndRegister"
    /\ receipt.status = "NullifierAlreadyUsed"
    /\ receipt.args[1] = FALSE
    /\ receipt.args[2][1] = 11
    /\ receipt.args[2][2] = 22
    /\ receipt.args[2][4] # attestersRoot
    /\ verifiedTypes[22] = 0
    /\ verificationTimestamps[22] = 0

====
